---- MODULE Spec2Model ----
(***************************************************************************)
(* Orchestration core of beta_narutalk: the two routing managers           *)
(*   RouterManager       (backend/app/services/router_manager.py)          *)
(*   AgentRouterManager  (backend/app/services/agent_router_manager.py)    *)
(* and the request layer that builds a LangGraphService per request        *)
(* (backend/app/api/routes/router.py).                                     *)
(*                                                                         *)
(* Confidences are kept in tenths (0.5 is 5), weighted scores in           *)
(* hundredths (0.7*c + 0.3*p/10 is 7*c + 3*p).  A handler's probe and      *)
(* execute are external: every call draws its result from a small set.     *)
(* One call is in flight at a time; its position is pc.  The managers      *)
(* share no state, so a behaviour exercises one entry point, named by mgr: *)
(*   "RM"   RouterManager.process_message called on one long-lived object, *)
(*   "ARM"  AgentRouterManager.route_message,                              *)
(*   "API"  the /chat and /chat/history routes, which build their service  *)
(*          (and RouterManager) anew for every request.                    *)
(* chain, probes, last_result, reqNo and log record what happened; the     *)
(* code does not keep them.                                                *)
(*                                                                         *)
(* Besides Spec, the runs of the three entry points, there are             *)
(*   AliasSpec     a caller that keeps the list get_chat_history returned, *)
(*   HealthSpec    the two health checks,                                  *)
(*   ConcSpec      two calls of process_message overlapping at awaits,     *)
(*   RegistrySpec  add_router and remove_router,                           *)
(*   LiveSpec      the first run of a manager, with fairness,              *)
(*   StatsSpec     AgentRouterManager with its statistics read,            *)
(*   ServiceSpec   ServiceManager of run_all_services.py,                  *)
(*   ClientSpec    ServiceClient of the Django manager,                    *)
(*   EnhancedSpec  the router agent of microservices_narutalk,             *)
(*   SimpleSpec    the keyword cascade of SimpleRouter,                    *)
(*   GraphSpec     the graph of LangGraphRouter,                           *)
(*   WorkflowSpec  the graph of NaruTalkWorkflow.                          *)
(***************************************************************************)
EXTENDS Integers, Sequences, FiniteSets, TLC

\* ------------------------------------------------------------------ bounds
MaxRequests == 2
Sessions == {"s1", "s2"}
RouterConfs == {4, 5, 9}
AgentConfs == {0, 1, 9}
MaxOwn == 1
MaxKeywords == 1
MaxHits == 2
MaxSupersteps == 8

\* ------------------------------------------------------- program constants
router_confidence_threshold == 5
max_router_switches == 5
HistoryCap == 50
max_agent_switches == 3
agent_score_threshold == 30

None == "None"
Raise == -1
UnknownRouter == "nonexistent_router"
UnknownAgent == "nonexistent_agent"
TestSession == "test_session"
CustomRouter == "custom_router"
SampleDocuments == 2

VARIABLES
    mgr,                   \* the manager this behaviour exercises
    routers,               \* RouterManager.routers: names in insertion order
    conversation_history,  \* RouterManager.conversation_history
    routing_history,       \* AgentRouterManager.routing_history
    selected,              \* route_message: selected_agent_id, confidence
    pc,                    \* position of the call in flight
    context,               \* the RouterContext / AgentContext of the run
    current_router,        \* local of _process_with_router_switching
    switch_count,          \* local of _process_with_router_switching
    probes,                \* results of the probes of the last selection
    chain,                 \* handlers executed by the run, in order
    last_result,           \* result of the last executed handler
    ret,                   \* value returned to the caller of the last call
    reqNo,                 \* number of requests started
    log,                   \* every turn ever appended, per session
    held,                  \* the history list a caller got from a read
    parked,                \* a run suspended at an await, if any
    instances,             \* RouterManager.routers: the object under each name
    openai_client,         \* EnhancedRouterAgent.openai_client
    state,                 \* the RouterState / AgentState of a workflow run
    node,                  \* the node a workflow run executes next
    processes,             \* ServiceManager.processes
    started                \* what start_service returned for each service

vars == <<mgr, routers, conversation_history, routing_history, selected, pc,
          context, current_router, switch_count, probes, chain, last_result,
          ret, reqNo, log, held, parked, instances, openai_client, state,
          node, processes, started>>

\* the objects outside the two managers and the request layer
outside == <<openai_client, state, node, processes, started>>

\* what a run of one manager never touches
aside == <<parked, instances, outside>>

\* ------------------------------------------------------------------ values
Range(s) == {s[i] : i \in DOMAIN s}

NoContext == [session_id |-> None, current_message |-> 0,
              current |-> None, switches |-> 0]
NoResponse == [by |-> None, text |-> None, notice |-> FALSE]
NoResult == [response |-> NoResponse, action |-> None, next |-> None]
NoRet == [kind |-> None]
NoProbes == [h \in {} |-> 0]
NoHistory == [s \in {} |-> <<>>]
NoSelection == [agent |-> None, confidence |-> 0]
NoHeld == [session |-> None, live |-> FALSE, seen |-> <<>>,
           snapshot |-> <<>>, own |-> 0]
NoRun == [pc |-> "idle", context |-> NoContext, current_router |-> None,
          switch_count |-> 0, probes |-> NoProbes, chain |-> <<>>,
          last_result |-> NoResult]

NoState == [current_message |-> None, current_agent |-> None,
            agent_switches |-> 0,
            routing_confidence |-> 0, next_action |-> None,
            is_complete |-> FALSE, error_message |-> None,
            final_response |-> NoResponse, workflow_history |-> <<>>]
NoProcesses == [n \in {} |-> None]

\* the objects outside the managers before anything is done with them
OutsideIdle ==
    /\ openai_client = None
    /\ state = NoState
    /\ node = "idle"
    /\ processes = NoProcesses
    /\ started = NoProcesses

HandlerResponse(h) == [by |-> h, text |-> "handler_response", notice |-> FALSE]
FixedResponse(t) == [by |-> "system", text |-> t, notice |-> FALSE]

\* what RouterResult / AgentResult a handler h may return from process():
\* the handlers of the repository answer COMPLETE or ERROR, or SWITCH with
\* the name should_switch_router / should_switch_agent gave them, which is
\* never their own and need not be registered
HandlerResults(h, targets) ==
    {[response |-> HandlerResponse(h), action |-> a, next |-> None] :
        a \in {"complete", "error"}}
    \cup {[response |-> HandlerResponse(h), action |-> "switch", next |-> t] :
        t \in targets \ {h}}

\* ---------------------------------------------------------- RouterManager
AllRouters == <<"qa_router", "document_search_router", "general_chat_router">>

get_priority(r) ==
    CASE r = "qa_router" -> 8
      [] r = "document_search_router" -> 7
      [] r = "general_chat_router" -> 3
      [] OTHER -> 0

\* the two weights exchanged
weighted_score_swapped(confidence, priority) == 3 * confidence + 7 * priority

\* confidence * 0.7 + (priority / 10) * 0.3, in hundredths
weighted_score(confidence, priority) == 7 * confidence + 3 * priority

\* a max that keeps the last of several greatest elements
LastMax(seq, key) ==
    seq[CHOOSE i \in DOMAIN seq :
            /\ \A j \in DOMAIN seq : key[seq[j]] <= key[seq[i]]
            /\ \A j \in DOMAIN seq : j > i => key[seq[j]] < key[seq[i]]]

\* Python's max(seq, key=f): the first element with the greatest key
FirstMax(seq, key) ==
    seq[CHOOSE i \in DOMAIN seq :
            /\ \A j \in DOMAIN seq : key[seq[j]] <= key[seq[i]]
            /\ \A j \in DOMAIN seq : j < i => key[seq[j]] < key[seq[i]]]

\* the try put around the whole loop: one raising probe ends the scoring
router_scores_abort(rs, pr) ==
    IF \E r \in Range(rs) : pr[r] = Raise THEN <<>>
    ELSE SelectSeq(rs, LAMBDA r : pr[r] # Raise)

\* select_router, lines 116-126: the routers whose probe returned
router_scores(rs, pr) == SelectSeq(rs, LAMBDA r : pr[r] # Raise)

\* the gate put on the blended score instead of the confidence
valid_routers_blended(rs, pr) ==
    SelectSeq(router_scores(rs, pr),
              LAMBDA r : weighted_score(pr[r], get_priority(r)) >= 30)

valid_routers(rs, pr) ==
    SelectSeq(router_scores(rs, pr),
              LAMBDA r : pr[r] >= router_confidence_threshold)

\* select_router without the general_chat_router fallback of lines 150-155
select_router_no_fallback(rs, pr) ==
    LET valid == valid_routers(rs, pr)
        score == [r \in Range(valid) |->
                     weighted_score(pr[r], get_priority(r))]
    IN  IF valid # <<>> THEN FirstMax(valid, score) ELSE None

\* select_router with the gate put on the winner only: the best weighted
\* score among all probed routers, refused when its confidence is too low
select_router_winner_gate(rs, pr) ==
    LET scored == router_scores(rs, pr)
        score == [r \in Range(scored) |->
                     weighted_score(pr[r], get_priority(r))]
    IN  IF scored = <<>> THEN None
        ELSE IF pr[FirstMax(scored, score)] >= router_confidence_threshold
        THEN FirstMax(scored, score)
        ELSE None

select_router(rs, pr) ==
    LET valid == valid_routers(rs, pr)
        score == [r \in Range(valid) |->
                     weighted_score(pr[r], get_priority(r))]
    IN  IF router_scores(rs, pr) = <<>> THEN None
        ELSE IF valid # <<>> THEN FirstMax(valid, score)
        ELSE IF "general_chat_router" \in Range(rs) THEN "general_chat_router"
        ELSE None

RMResult(response, router_type, error) ==
    [kind |-> "rm", response |-> response, router_type |-> router_type,
     error |-> error]

Turn(message, result, ctx) ==
    [user |-> message, assistant |-> result.response,
     router |-> result.router_type, timestamp |-> ctx.current]

\* the cap keeping the oldest n turns instead of the newest
FirstN(seq, n) ==
    IF Len(seq) > n THEN SubSeq(seq, 1, n) ELSE seq

LastN(seq, n) ==
    IF Len(seq) > n THEN SubSeq(seq, Len(seq) - n + 1, Len(seq)) ELSE seq

append_history(hist, s, turn) ==
    [hist EXCEPT ![s] = LastN(Append(hist[s], turn), HistoryCap)]

\* line 193 binds the session to a new list when the cap cuts: a reference
\* h to the old list keeps the old list, with the turn just appended to it
rebound(h, s, full) ==
    IF h.session = s /\ h.live /\ Len(full) > HistoryCap
    THEN [h EXCEPT !.live = FALSE, !.seen = full]
    ELSE h

\* get_router_statistics, lines 285-292 (user_preferences is never written)
get_router_statistics ==
    [total_routers |-> Len(routers),
     available_routers |-> routers,
     active_sessions |-> Cardinality(DOMAIN conversation_history),
     total_users |-> 0]

\* process_message, lines 159-178: session entry, context, first await
process_message(s) ==
    /\ mgr = "RM"
    /\ pc = "idle"
    /\ reqNo < MaxRequests
    /\ reqNo' = reqNo + 1
    /\ conversation_history' =
          IF s \in DOMAIN conversation_history THEN conversation_history
          ELSE [k \in DOMAIN conversation_history \cup {s} |->
                   IF k = s THEN <<>> ELSE conversation_history[k]]
    /\ context' = [session_id |-> s, current_message |-> reqNo + 1,
                   current |-> "", switches |-> 0]
    /\ current_router' = None
    /\ switch_count' = 0
    /\ probes' = NoProbes
    /\ chain' = <<>>
    /\ last_result' = NoResult
    /\ ret' = NoRet
    /\ pc' = "select"
    /\ UNCHANGED <<mgr, routers, routing_history, selected, log>>
    /\ UNCHANGED <<held, parked, instances, outside>>

\* the end of process_message, lines 183-195: append the turn, cap, return
RMReturn(result, ctx) ==
    LET turn == Turn(ctx.current_message, result, ctx)
    IN  /\ conversation_history' =
              append_history(conversation_history, ctx.session_id, turn)
        /\ log' = [log EXCEPT ![ctx.session_id] = Append(@, turn)]
        /\ held' = rebound(held, ctx.session_id,
                           Append(conversation_history[ctx.session_id], turn))
        /\ ret' = result
        /\ pc' = "idle"

\* process_message without its except clause: the exception escapes
RMExceptUncaught ==
    /\ ret' = NoRet
    /\ pc' = "raised"
    /\ UNCHANGED <<conversation_history, log, held>>

\* process_message, lines 197-205: an exception of the run is caught
RMExcept ==
    /\ ret' = RMResult(FixedResponse("process_error"), "error", "exception")
    /\ pc' = "idle"
    /\ UNCHANGED <<conversation_history, log, held>>

\* the loop going round again (continue) when no router was selected,
\* instead of returning the no_router_found error
RMSelectRetry ==
    /\ mgr \in {"RM", "API"}
    /\ pc = "select"
    /\ \E pr \in [Range(routers) -> RouterConfs \cup {Raise}] :
          LET chosen == select_router(routers, pr)
          IN  /\ probes' = pr
              /\ current_router' = chosen
              /\ pc' = IF chosen = None THEN "select" ELSE "exec"
    /\ UNCHANGED <<mgr, routers, routing_history, selected, switch_count, chain,
                   last_result, reqNo, conversation_history, log, held, ret,
                   context>>
    /\ UNCHANGED aside

\* _process_with_router_switching, lines 213-224: the first selection
RMSelect ==
    /\ mgr \in {"RM", "API"}
    /\ pc = "select"
    /\ \E pr \in [Range(routers) -> RouterConfs \cup {Raise}] :
          LET chosen == select_router(routers, pr)
          IN  /\ probes' = pr
              /\ current_router' = chosen
              /\ IF chosen = None
                 THEN /\ RMReturn(RMResult(FixedResponse("no_router"),
                                           "error", "no_router_found"),
                                  context)
                      /\ UNCHANGED context
                 ELSE /\ pc' = "exec"
                      /\ UNCHANGED <<conversation_history, log, held, ret,
                                      context>>
    /\ UNCHANGED <<mgr, routers, routing_history, selected, switch_count, chain,
                   last_result, reqNo>>
    /\ UNCHANGED aside

\* one iteration of the loop, lines 226-274, and the loop test of line 213
RMProcess ==
    /\ mgr \in {"RM", "API"}
    /\ pc = "exec"
    /\ LET ctx == [context EXCEPT !.current = current_router,
                                  !.switches = switch_count]
       IN
       \E result \in HandlerResults(current_router,
                                    Range(routers) \cup {UnknownRouter}) :
          /\ context' = ctx
          /\ chain' = Append(chain, current_router)
          /\ last_result' = result
          /\ probes' = NoProbes
          /\ IF /\ result.action = "switch"
                /\ result.next # None
                /\ result.next \in Range(routers)
             THEN /\ current_router' = result.next
                  /\ switch_count' = switch_count + 1
                  /\ IF switch_count + 1 < max_router_switches
                     THEN /\ pc' = "exec"
                          /\ UNCHANGED <<conversation_history, log, held, ret>>
                     ELSE RMReturn(RMResult(FixedResponse("too_many_switches"),
                                            "error", "max_switches_exceeded"),
                                   ctx)
             ELSE /\ RMReturn(RMResult(result.response, current_router,
                                       "none"), ctx)
                  /\ UNCHANGED <<current_router, switch_count>>
    /\ UNCHANGED <<mgr, routers, routing_history, selected, reqNo>>
    /\ UNCHANGED aside

\* router.process raises: the exception leaves the loop, lines 197-205
RMProcessRaises ==
    /\ mgr \in {"RM", "API"}
    /\ pc = "exec"
    /\ context' = [context EXCEPT !.current = current_router,
                                  !.switches = switch_count]
    /\ chain' = Append(chain, current_router)
    /\ last_result' = [response |-> NoResponse, action |-> "raise", next |-> None]
    /\ probes' = NoProbes
    /\ RMExcept
    /\ UNCHANGED <<mgr, routers, routing_history, selected, current_router,
                   switch_count, reqNo>>
    /\ UNCHANGED aside

\* ------------------------------------------------------ AgentRouterManager
agents == <<"document_search", "document_draft", "performance_analysis",
            "client_analysis">>

priority(a) ==
    CASE a = "document_search" -> 8
      [] a = "document_draft" -> 7
      [] a = "performance_analysis" -> 8
      [] a = "client_analysis" -> 7
      [] OTHER -> 0

\* select_best_agent, lines 120-137: a probe that raises scores 0
agent_scores(pr) ==
    [a \in Range(agents) |->
        IF pr[a] = Raise
        THEN [confidence |-> 0, priority |-> 0, final_score |-> 0]
        ELSE [confidence |-> pr[a], priority |-> priority(a),
              final_score |-> weighted_score(pr[a], priority(a))]]

\* select_best_agent, lines 139-152; the pair (agent id, confidence)
select_best_agent(pr) ==
    LET final == [a \in Range(agents) |-> agent_scores(pr)[a].final_score]
        best_agent == FirstMax(agents, final)
    IN  IF agents = <<>> THEN NoSelection
        ELSE IF final[best_agent] < agent_score_threshold
        THEN [agent |-> None, confidence |-> final[best_agent]]
        ELSE [agent |-> best_agent,
              confidence |-> agent_scores(pr)[best_agent].confidence]

\* route_message, lines 96-105: the mapping returned for a result (or None)
ARMResult(sel, result) ==
    [kind |-> "arm", agent_id |-> sel.agent, confidence |-> sel.confidence,
     response |-> IF result = NoResult THEN FixedResponse("processing_error")
                  ELSE result.response,
     action |-> IF result = NoResult THEN "error" ELSE result.action,
     next_agent |-> result.next]

\* route_message, lines 78-81: no agent was selected
ARMNoAgent == [kind |-> "arm_error", error |-> "no_agent_found"]

\* route_message, lines 62-75, up to the first probe
route_message ==
    /\ mgr = "ARM"
    /\ pc = "idle"
    /\ reqNo < MaxRequests
    /\ reqNo' = reqNo + 1
    /\ context' = [session_id |-> "s1", current_message |-> reqNo + 1,
                   current |-> "", switches |-> 0]
    /\ selected' = NoSelection
    /\ current_router' = None
    /\ probes' = NoProbes
    /\ chain' = <<>>
    /\ last_result' = NoResult
    /\ ret' = NoRet
    /\ pc' = "select"
    /\ UNCHANGED <<mgr, routers, conversation_history, routing_history,
                   switch_count, log>>
    /\ UNCHANGED <<held, parked, instances, outside>>

\* route_message, lines 75-85: select_best_agent and its outcome
ARMSelect ==
    /\ mgr = "ARM"
    /\ pc = "select"
    /\ \E pr \in [Range(agents) -> AgentConfs \cup {Raise}] :
          LET sel == select_best_agent(pr)
          IN  /\ probes' = pr
              /\ selected' = sel
              /\ IF sel.agent = None
                 THEN /\ ret' = ARMNoAgent
                      /\ pc' = "idle"
                      /\ UNCHANGED <<context, current_router>>
                 ELSE /\ context' = [context EXCEPT !.current = sel.agent]
                      /\ current_router' = sel.agent
                      /\ pc' = "exec"
                      /\ UNCHANGED ret
    /\ UNCHANGED <<mgr, routers, conversation_history, routing_history,
                   switch_count, chain, last_result, reqNo, log>>
    /\ UNCHANGED <<held, parked, instances, outside>>

\* route_message, lines 87-105: record the run and return
ARMReturn(result, ctx) ==
    /\ routing_history' =
          Append(routing_history,
                 [message |-> ctx.current_message,
                  selected_agent |-> selected.agent,
                  confidence |-> selected.confidence,
                  result_action |-> result.action])
    /\ ret' = ARMResult(selected, result)
    /\ pc' = "idle"

\* process_with_agent, lines 160-179: one agent runs; a followed switch
\* re-enters process_with_agent, which gives up on an unregistered id
ARMProcess ==
    /\ mgr = "ARM"
    /\ pc = "exec"
    /\ \E result \in HandlerResults(current_router,
                                    Range(agents) \cup {UnknownAgent}) :
          /\ chain' = Append(chain, current_router)
          /\ probes' = NoProbes
          /\ IF result.action = "switch" /\ result.next # None
             THEN IF context.switches < max_agent_switches
                  THEN LET ctx == [context EXCEPT
                                      !.switches = context.switches + 1,
                                      !.current = result.next]
                       IN  /\ context' = ctx
                           /\ current_router' = result.next
                           /\ last_result' = result
                           /\ IF result.next \in Range(agents)
                              THEN /\ pc' = "exec"
                                   /\ UNCHANGED <<routing_history, ret>>
                              ELSE ARMReturn(NoResult, ctx)
                  ELSE LET noticed == [result EXCEPT !.response.notice = TRUE]
                       IN  /\ last_result' = noticed
                           /\ ARMReturn(noticed, context)
                           /\ UNCHANGED <<context, current_router>>
             ELSE /\ last_result' = result
                  /\ ARMReturn(result, context)
                  /\ UNCHANGED <<context, current_router>>
    /\ UNCHANGED <<mgr, routers, conversation_history, selected, switch_count,
                   reqNo, log>>
    /\ UNCHANGED <<held, parked, instances, outside>>

\* process_with_agent, lines 181-183: agent.process raises
ARMProcessRaises ==
    /\ mgr = "ARM"
    /\ pc = "exec"
    /\ chain' = Append(chain, current_router)
    /\ probes' = NoProbes
    /\ last_result' = [response |-> NoResponse, action |-> "raise", next |-> None]
    /\ ARMReturn(NoResult, context)
    /\ UNCHANGED <<mgr, routers, conversation_history, selected, context,
                   current_router, switch_count, reqNo, log>>
    /\ UNCHANGED <<held, parked, instances, outside>>

\* usage counted over the completed runs only
agent_usage_completed(history) ==
    [a \in {history[i].selected_agent : i \in DOMAIN history} |->
        Cardinality({i \in DOMAIN history :
                        /\ history[i].selected_agent = a
                        /\ history[i].result_action = "complete"})]

\* get_routing_statistics, lines 225-232: the records of each selected agent
agent_usage(history) ==
    [a \in {history[i].selected_agent : i \in DOMAIN history} |->
        Cardinality({i \in DOMAIN history : history[i].selected_agent = a})]

\* get_routing_statistics, lines 220-245
get_routing_statistics ==
    IF routing_history = <<>> THEN [kind |-> "statistics", message |-> "empty"]
    ELSE LET usage == agent_usage(routing_history)
             total_requests == Len(routing_history)
             selected_agents == [i \in DOMAIN routing_history |->
                                   routing_history[i].selected_agent]
         IN  [kind |-> "statistics",
              total_requests |-> total_requests,
              agent_usage |->
                  [a \in DOMAIN usage |->
                      [count |-> usage[a],
                       \* the percentage in whole percent
                       percentage |-> (usage[a] * 100) \div total_requests]],
              most_used_agent |-> FirstMax(selected_agents, usage)]

\* a caller asks for the statistics between two calls of route_message
routing_statistics ==
    /\ mgr = "ARM"
    /\ pc = "idle"
    /\ ret' = get_routing_statistics
    /\ UNCHANGED <<mgr, routers, conversation_history, routing_history,
                   selected, pc, context, current_router, switch_count,
                   probes, chain, last_result, reqNo, log, held, parked,
                   instances, outside>>

\* ------------------------------------------------- api/routes/router.py
\* get_langgraph_service, lines 20-27: a new LangGraphService, and with it
\* a new RouterManager, for every request
get_langgraph_service ==
    [routers |-> AllRouters, conversation_history |-> NoHistory]

\* POST /chat, lines 42-72: a fresh service runs process_message
chat(s) ==
    /\ mgr = "API"
    /\ pc = "idle"
    /\ reqNo < MaxRequests
    /\ LET service == get_langgraph_service
       IN  /\ routers' = service.routers
           /\ conversation_history' = [k \in {s} |-> <<>>]
    /\ reqNo' = reqNo + 1
    /\ context' = [session_id |-> s, current_message |-> reqNo + 1,
                   current |-> "", switches |-> 0]
    /\ current_router' = None
    /\ switch_count' = 0
    /\ probes' = NoProbes
    /\ chain' = <<>>
    /\ last_result' = NoResult
    /\ ret' = NoRet
    /\ pc' = "select"
    /\ UNCHANGED <<mgr, routing_history, selected, log>>
    /\ UNCHANGED <<held, parked, instances, outside>>

\* LangGraphService.get_chat_history, lines 98-101
service_get_chat_history(hist, s) ==
    IF s \in DOMAIN hist THEN hist[s] ELSE <<>>

\* GET /chat/history/{session_id}, lines 93-126: a fresh service is read
get_chat_history(s) ==
    /\ mgr = "API"
    /\ pc = "idle"
    /\ reqNo > 0
    /\ LET service == get_langgraph_service
       IN  /\ routers' = service.routers
           /\ conversation_history' = service.conversation_history
           /\ ret' = [kind |-> "history", session_id |-> s,
                      history |-> service_get_chat_history(
                                      service.conversation_history, s)]
    /\ context' = NoContext
    /\ current_router' = None
    /\ switch_count' = 0
    /\ probes' = NoProbes
    /\ chain' = <<>>
    /\ last_result' = NoResult
    /\ UNCHANGED <<mgr, routing_history, selected, pc, reqNo, log>>
    /\ UNCHANGED <<held, parked, instances, outside>>

\* ----------------------------------------- a long-lived LangGraphService
\* the list a holder of held now has in hand
HeldList ==
    IF held.live THEN conversation_history[held.session] ELSE held.seen

\* an item that no run appended
Injected ==
    [user |-> 0, assistant |-> FixedResponse("injected"),
     router |-> "caller", timestamp |-> "caller"]

\* LangGraphService.get_chat_history, lines 98-101, called on a service that
\* lives on between calls: the session's own list is returned, or a new
\* empty list for an unknown session
read_chat_history(s) ==
    /\ mgr = "RM"
    /\ pc = "idle"
    /\ held.session = None
    /\ held' = [session |-> s,
                live |-> s \in DOMAIN conversation_history,
                seen |-> <<>>,
                snapshot |-> service_get_chat_history(conversation_history, s),
                own |-> 0]
    /\ ret' = [kind |-> "history", session_id |-> s,
               history |-> service_get_chat_history(conversation_history, s)]
    /\ UNCHANGED <<mgr, routers, conversation_history, routing_history,
                   selected, pc, context, current_router, switch_count, probes,
                   chain, last_result, reqNo, log, parked, instances, outside>>

\* the caller appends an item to the list it was given
holder_appends ==
    /\ mgr = "RM"
    /\ pc = "idle"
    /\ held.session # None
    /\ held.own < MaxOwn
    /\ IF held.live
       THEN /\ conversation_history' =
                  [conversation_history EXCEPT
                      ![held.session] = Append(@, Injected)]
            /\ held' = [held EXCEPT !.own = @ + 1]
       ELSE /\ held' = [held EXCEPT !.own = @ + 1,
                                    !.seen = Append(@, Injected)]
            /\ UNCHANGED conversation_history
    /\ UNCHANGED <<mgr, routers, routing_history, selected, pc, context,
                   current_router, switch_count, probes, chain, last_result,
                   ret, reqNo, log, parked, instances, outside>>

\* ------------------------------------------------------------ the registry
\* the names a router handed to add_router may carry
RouterNames == Range(AllRouters) \cup {CustomRouter}

\* add_router, lines 79-90: the router is stored under its router_name; a
\* dict assignment keeps the place of a key that is already there and
\* replaces its value; an exception of set_services is logged, and the
\* call returns None either way
add_router(name, set_services_raises) ==
    /\ mgr = "RM"
    /\ pc = "idle"
    /\ IF set_services_raises
       THEN UNCHANGED <<routers, instances>>
       ELSE /\ routers' = IF name \in Range(routers) THEN routers
                          ELSE Append(routers, name)
            /\ instances' = [r \in Range(routers) \cup {name} |->
                                IF r = name THEN "added" ELSE instances[r]]
    /\ ret' = [kind |-> "add_router", name |-> name,
               was |-> IF name \in Range(routers) THEN instances[name]
                       ELSE None,
               logged_error |-> set_services_raises,
               raised |-> FALSE]
    /\ UNCHANGED <<mgr, conversation_history, routing_history, selected, pc,
                   context, current_router, switch_count, probes, chain,
                   last_result, reqNo, log, held, parked, outside>>

\* remove_router, lines 92-96
remove_router(name) ==
    /\ mgr = "RM"
    /\ pc = "idle"
    /\ IF name \in Range(routers)
       THEN /\ routers' = SelectSeq(routers, LAMBDA r : r # name)
            /\ instances' = [r \in Range(routers) \ {name} |-> instances[r]]
       ELSE UNCHANGED <<routers, instances>>
    /\ ret' = [kind |-> "remove_router", name |-> name]
    /\ UNCHANGED <<mgr, conversation_history, routing_history, selected, pc,
                   context, current_router, switch_count, probes, chain,
                   last_result, reqNo, log, held, parked, outside>>

\* ------------------------------------------------- concurrent coroutines
\* process_message is a coroutine: at each await (select_router, line 216,
\* and router.process, line 231) the event loop may run another call of
\* process_message on the same RouterManager.  The locals of the coroutine
\* that is not running are kept in parked.
ActiveRun ==
    [pc |-> pc, context |-> context, current_router |-> current_router,
     switch_count |-> switch_count, probes |-> probes, chain |-> chain,
     last_result |-> last_result]

\* the event loop leaves the running coroutine at its await (or after its
\* return) and resumes the other one, or is free to start a new call
task_switch ==
    /\ mgr = "RM"
    /\ pc \in {"select", "exec"} \/ parked.pc # "idle"
    /\ parked' = IF pc = "idle" THEN NoRun ELSE ActiveRun
    /\ pc' = parked.pc
    /\ context' = parked.context
    /\ current_router' = parked.current_router
    /\ switch_count' = parked.switch_count
    /\ probes' = parked.probes
    /\ chain' = parked.chain
    /\ last_result' = parked.last_result
    /\ UNCHANGED <<mgr, routers, conversation_history, routing_history,
                   selected, ret, reqNo, log, held, instances, outside>>

\* ------------------------------------------------------------ health checks
\* AgentRouterManager.health_check, lines 247-285: every agent is probed
\* with a test context of its own; a raising probe is reported, not raised
arm_health_check ==
    /\ mgr = "ARM"
    /\ pc = "idle"
    /\ \E pr \in [Range(agents) -> AgentConfs \cup {Raise}] :
          /\ probes' = pr
          /\ ret' = [kind |-> "health",
                     system_status |->
                         IF \E a \in Range(agents) : pr[a] = Raise
                         THEN "degraded" ELSE "healthy",
                     total_agents |-> Len(agents),
                     agents |-> [a \in Range(agents) |->
                                   IF pr[a] = Raise
                                   THEN [status |-> "error",
                                         test_confidence |-> None]
                                   ELSE [status |-> "healthy",
                                         test_confidence |-> pr[a]]]]
    /\ UNCHANGED <<mgr, routers, conversation_history, routing_history,
                   selected, pc, context, current_router, switch_count, chain,
                   last_result, reqNo, log, held, parked, instances, outside>>

\* LangGraphService.health_check, line 178: a test message is processed
\* under the session id "test_session"
service_health_check == process_message(TestSession)

\* LangGraphService.health_check, lines 180-189: the report built from the
\* processed test message (a raise inside process_message is already caught
\* there, so the except of lines 190-195 is not reached)
service_health_check_return ==
    /\ mgr = "RM"
    /\ pc = "idle"
    /\ context.session_id = TestSession
    /\ ret.kind = "rm"
    /\ ret' = [kind |-> "health",
               status |-> "healthy",
               test_message_processed |-> ret.response # NoResponse,
               router_count |-> Len(routers)]
    /\ UNCHANGED <<mgr, routers, conversation_history, routing_history,
                   selected, pc, context, current_router, switch_count, probes,
                   chain, last_result, reqNo, log, held, parked, instances, outside>>

\* ------------------------------------------------------------ construction
\* a RouterManager starts with all routers and no history; the runs checked
\* here also start from one that has lost general_chat_router to
\* remove_router (lines 92-96) and from one whose session s1 already holds
\* HistoryCap - 1 turns of earlier process_message calls
OldTurn(i) ==
    [user |-> i - HistoryCap, assistant |-> HandlerResponse("qa_router"),
     router |-> "qa_router", timestamp |-> "qa_router"]

Init ==
    /\ mgr \in {"RM", "ARM", "API"}
    /\ routers \in IF mgr = "RM" THEN {AllRouters, SubSeq(AllRouters, 1, 2)}
                   ELSE {AllRouters}
    /\ \E n \in IF mgr = "RM" THEN {0, HistoryCap - 1} ELSE {0} :
          /\ log = [s \in Sessions |->
                       IF s = "s1" THEN [i \in 1..n |-> OldTurn(i)] ELSE <<>>]
          /\ conversation_history =
                IF n = 0 THEN NoHistory
                ELSE [s \in {"s1"} |-> [i \in 1..n |-> OldTurn(i)]]
    /\ routing_history = <<>>
    /\ selected = NoSelection
    /\ pc = "idle"
    /\ context = NoContext
    /\ current_router = None
    /\ switch_count = 0
    /\ probes = NoProbes
    /\ chain = <<>>
    /\ last_result = NoResult
    /\ ret = NoRet
    /\ reqNo = 0
    /\ held = NoHeld
    /\ parked = NoRun
    /\ instances = [r \in Range(routers) |-> "builtin"]
    /\ OutsideIdle

Next ==
    \/ \E s \in Sessions : process_message(s)
    \/ RMSelect
    \/ RMProcess
    \/ RMProcessRaises
    \/ route_message
    \/ ARMSelect
    \/ ARMProcess
    \/ ARMProcessRaises
    \/ \E s \in Sessions : chat(s)
    \/ \E s \in Sessions : get_chat_history(s)

Spec == Init /\ [][Next]_vars

\* a service object that lives on between calls, with a caller that keeps
\* and changes the list a read gave it
AliasInit ==
    /\ Init
    /\ mgr = "RM"
    /\ routers = AllRouters

AliasNext ==
    \/ \E s \in Sessions : process_message(s)
    \/ RMSelect
    \/ RMProcess
    \/ RMProcessRaises
    \/ \E s \in Sessions : read_chat_history(s)
    \/ holder_appends

AliasSpec == AliasInit /\ [][AliasNext]_vars

\* the first run of a new RouterManager or AgentRouterManager, where every
\* awaited probe and every awaited process call returns or raises: a step
\* of a run that can be taken is taken
LiveInit ==
    /\ Init
    /\ mgr \in {"RM", "ARM"}
    /\ conversation_history = NoHistory

LiveNext ==
    \/ \E s \in Sessions : reqNo = 0 /\ process_message(s)
    \/ RMSelect
    \/ RMProcess
    \/ RMProcessRaises
    \/ reqNo = 0 /\ route_message
    \/ ARMSelect
    \/ ARMProcess
    \/ ARMProcessRaises

LiveSpec ==
    /\ LiveInit
    /\ [][LiveNext]_vars
    /\ WF_vars(RMSelect)
    /\ WF_vars(RMProcess \/ RMProcessRaises)
    /\ WF_vars(ARMSelect)
    /\ WF_vars(ARMProcess \/ ARMProcessRaises)

\* an AgentRouterManager whose statistics are read between the runs; the
\* messages are about documents: the two analysis agents answer 0.0
StatsInit ==
    /\ Init
    /\ mgr = "ARM"

StatsNext ==
    \/ route_message
    \/ /\ ARMSelect
       /\ probes'["performance_analysis"] = 0
       /\ probes'["client_analysis"] = 0
    \/ ARMProcess
    \/ ARMProcessRaises
    \/ routing_statistics

StatsSpec == StatsInit /\ [][StatsNext]_vars

\* a new RouterManager whose registry is changed through add_router and
\* remove_router
RegistryInit ==
    /\ Init
    /\ mgr = "RM"
    /\ routers = AllRouters
    /\ conversation_history = NoHistory

RegistryNext ==
    \/ \E name \in RouterNames, e \in BOOLEAN : add_router(name, e)
    \/ \E name \in RouterNames : remove_router(name)

RegistrySpec == RegistryInit /\ [][RegistryNext]_vars

\* one RouterManager serving overlapping calls of process_message; s1 is
\* one turn short of the cap and s2 is not known yet
ConcInit ==
    /\ Init
    /\ mgr = "RM"
    /\ routers = AllRouters
    /\ "s1" \in DOMAIN conversation_history

ConcNext ==
    \/ \E s \in Sessions : process_message(s)
    \/ RMSelect
    \/ RMProcess
    \/ RMProcessRaises
    \/ task_switch

ConcSpec == ConcInit /\ [][ConcNext]_vars

\* a new LangGraphService or AgentRouterManager on which only health checks
\* are run
HealthInit ==
    /\ mgr \in {"RM", "ARM"}
    /\ routers = AllRouters
    /\ conversation_history = NoHistory
    /\ log = [s \in Sessions \cup {TestSession} |-> <<>>]
    /\ routing_history = <<>>
    /\ selected = NoSelection
    /\ pc = "idle"
    /\ context = NoContext
    /\ current_router = None
    /\ switch_count = 0
    /\ probes = NoProbes
    /\ chain = <<>>
    /\ last_result = NoResult
    /\ ret = NoRet
    /\ reqNo = 0
    /\ held = NoHeld
    /\ parked = NoRun
    /\ instances = [r \in Range(routers) |-> "builtin"]
    /\ OutsideIdle

HealthNext ==
    \/ service_health_check
    \/ RMSelect
    \/ RMProcess
    \/ RMProcessRaises
    \/ service_health_check_return
    \/ arm_health_check

HealthSpec == HealthInit /\ [][HealthNext]_vars

\* ------------------------------------------------ objects left untouched
\* the state of the two managers before any call, for the behaviours that
\* exercise another object of the repository
CoreIdle ==
    /\ routers = AllRouters
    /\ conversation_history = NoHistory
    /\ log = [s \in Sessions |-> <<>>]
    /\ routing_history = <<>>
    /\ selected = NoSelection
    /\ pc = "idle"
    /\ context = NoContext
    /\ current_router = None
    /\ switch_count = 0
    /\ probes = NoProbes
    /\ chain = <<>>
    /\ last_result = NoResult
    /\ ret = NoRet
    /\ reqNo = 0
    /\ held = NoHeld
    /\ parked = NoRun
    /\ instances = [r \in Range(routers) |-> "builtin"]

\* what a call on one of those objects leaves alone in the managers
around == <<mgr, routers, conversation_history, routing_history, selected,
            pc, context, current_router, switch_count, probes, last_result,
            reqNo, log, held, parked, instances>>

managers == <<around, chain>>

\* ------------------------------------------------- enhanced router agent
\* microservices_narutalk/agents/router_agent/enhanced_main.py.  A message
\* is known by how many keywords of each list it holds; confidences are in
\* hundredths.
KeywordLists == {"document", "employee", "client", "greeting"}

Messages == [KeywordLists -> 0..MaxKeywords]

\* the names of AGENT_TOOLS, which are the keys of service_urls
Intents == {"search_documents", "analyze_employee_data",
            "get_client_information", "general_conversation"}

\* _get_service_name, lines 348-356
get_service_name(function_name) ==
    CASE function_name = "search_documents" -> "document_agent"
      [] function_name = "analyze_employee_data" -> "employee_agent"
      [] function_name = "get_client_information" -> "client_agent"
      [] function_name = "general_conversation" -> "general_agent"
      [] OTHER -> "general_agent"

\* _fallback_routing, lines 280-328: the first keyword list with a hit
fallback_routing(message) ==
    IF message["document"] > 0
    THEN [intent |-> "search_documents", confidence |-> 70,
          service |-> "document_agent", reasoning |-> "keywords"]
    ELSE IF message["employee"] > 0
    THEN [intent |-> "analyze_employee_data", confidence |-> 70,
          service |-> "employee_agent", reasoning |-> "keywords"]
    ELSE IF message["client"] > 0
    THEN [intent |-> "get_client_information", confidence |-> 70,
          service |-> "client_agent", reasoning |-> "keywords"]
    ELSE [intent |-> "general_conversation", confidence |-> 60,
          service |-> "general_agent", reasoning |-> "keywords"]

\* _calculate_confidence, lines 330-346: 0.9 plus 0.05 for each keyword of
\* the function's list, at most 0.99
calculate_confidence(message, function_name) ==
    LET list == CASE function_name = "search_documents" -> "document"
                  [] function_name = "analyze_employee_data" -> "employee"
                  [] function_name = "get_client_information" -> "client"
                  [] function_name = "general_conversation" -> "greeting"
                  [] OTHER -> None
        matches == IF list = None THEN 0 ELSE message[list]
    IN  IF 90 + 5 * matches > 99 THEN 99 ELSE 90 + 5 * matches

\* what chat.completions.create and the reading of its answer can do: the
\* call raises, the answer holds no tool call, or it holds a call of a
\* function whose arguments json.loads can or cannot read
NotCalled == [kind |-> "not_called"]

Completions ==
    {[kind |-> "raise"], [kind |-> "no_tool_call"]}
    \cup {[kind |-> "tool_call", name |-> f, arguments_ok |-> ok] :
            f \in Intents \cup {"unknown_function"}, ok \in BOOLEAN}

Raised == [intent |-> None, confidence |-> 0, service |-> None,
           reasoning |-> "raised"]

\* route_with_gpt4o with an except clause that raises again
route_with_gpt4o_reraise(client, message, completion) ==
    IF client = None THEN fallback_routing(message)
    ELSE IF completion.kind = "raise" THEN Raised
    ELSE IF completion.kind = "tool_call"
    THEN IF completion.arguments_ok
         THEN [intent |-> completion.name,
               confidence |-> calculate_confidence(message, completion.name),
               service |-> get_service_name(completion.name),
               reasoning |-> "gpt4o"]
         ELSE Raised
    ELSE [intent |-> "general_conversation", confidence |-> 80,
          service |-> "general_agent", reasoning |-> "gpt4o"]

\* route_with_gpt4o, lines 186-278
route_with_gpt4o(client, message, completion) ==
    IF client = None THEN fallback_routing(message)
    ELSE IF completion.kind = "raise" THEN fallback_routing(message)
    ELSE IF completion.kind = "tool_call"
    THEN IF completion.arguments_ok
         THEN [intent |-> completion.name,
               confidence |-> calculate_confidence(message, completion.name),
               service |-> get_service_name(completion.name),
               reasoning |-> "gpt4o"]
         ELSE fallback_routing(message)
    ELSE [intent |-> "general_conversation", confidence |-> 80,
          service |-> "general_agent", reasoning |-> "gpt4o"]

\* POST /analyze, lines 363-390: the routing result becomes the response;
\* an exception becomes HTTP 500
analyze_message ==
    /\ mgr = "router_agent"
    /\ \E message \in Messages,
          completion \in IF openai_client = None THEN {NotCalled}
                         ELSE Completions :
          LET result == route_with_gpt4o(openai_client, message, completion)
          IN  ret' = [kind |-> "analyze", message |-> message,
                      completion |-> completion,
                      status |-> IF result = Raised THEN 500 ELSE 200,
                      intent |-> result.intent,
                      confidence |-> result.confidence,
                      service |-> result.service,
                      reasoning |-> result.reasoning]
    /\ UNCHANGED <<managers, outside>>

\* GET /health, lines 393-415
router_agent_health ==
    /\ mgr = "router_agent"
    /\ ret' = [kind |-> "health", status |-> "healthy",
               openai_status |-> IF openai_client = None THEN "unavailable"
                                 ELSE "available"]
    /\ UNCHANGED <<managers, outside>>

\* EnhancedRouterAgent.__init__, lines 165-173: the client exists when
\* OPENAI_API_KEY is set
EnhancedInit ==
    /\ mgr = "router_agent"
    /\ CoreIdle
    /\ openai_client \in {None, "client"}
    /\ state = NoState
    /\ node = "idle"
    /\ processes = NoProcesses
    /\ started = NoProcesses

EnhancedNext ==
    \/ analyze_message
    \/ router_agent_health

EnhancedSpec == EnhancedInit /\ [][EnhancedNext]_vars

\* --------------------------------------------------------- SimpleRouter
\* backend/app/services/simple_router.py: the agent is chosen by a cascade
\* of keyword rules, not by asking the agents.  A message is known by the
\* keyword lists it has a word of.  probes holds the rules that were
\* evaluated, under the key of their agent, with the confidence they gave.
simple_agents == <<"search", "draft", "performance", "client">>

SimpleMessages == [{"performance", "client", "draft"} -> BOOLEAN]

\* _classify_intent, lines 49-68: the agent type and the confidence
classify_intent(message) ==
    IF message["performance"] THEN <<"performance", 9>>
    ELSE IF message["client"] THEN <<"client", 9>>
    ELSE IF message["draft"] THEN <<"draft", 8>>
    ELSE <<"search", 7>>

\* the rules _classify_intent has evaluated when it returns
rules_evaluated(message) ==
    IF message["performance"] THEN [a \in {"performance"} |-> 9]
    ELSE IF message["client"]
    THEN [a \in {"performance", "client"} |->
             IF a = "client" THEN 9 ELSE 0]
    ELSE IF message["draft"]
    THEN [a \in {"performance", "client", "draft"} |->
             IF a = "draft" THEN 8 ELSE 0]
    ELSE [a \in {"performance", "client", "draft", "search"} |->
             IF a = "search" THEN 7 ELSE 0]

\* SimpleRouter.process_message, lines 77-93, up to the await
simple_process_message(s) ==
    /\ mgr = "SimpleRouter"
    /\ pc = "idle"
    /\ reqNo < MaxRequests
    /\ reqNo' = reqNo + 1
    /\ \E message \in SimpleMessages :
          LET intent == classify_intent(message)
          IN  /\ probes' = rules_evaluated(message)
              /\ current_router' = intent[1]
              /\ selected' = [agent |-> intent[1], confidence |-> intent[2]]
              /\ context' = [session_id |-> s, current_message |-> reqNo + 1,
                             current |-> intent[1], switches |-> 0]
    /\ chain' = <<>>
    /\ last_result' = NoResult
    /\ ret' = NoRet
    /\ pc' = "exec"
    /\ UNCHANGED <<mgr, routers, conversation_history, routing_history,
                   switch_count, log, held, parked, instances, outside>>

\* SimpleRouter.process_message, lines 94-113: the agent answers, whatever
\* its action, or raises
simple_agent_process ==
    /\ mgr = "SimpleRouter"
    /\ pc = "exec"
    /\ chain' = Append(chain, current_router)
    /\ \/ \E result \in HandlerResults(current_router,
                                       Range(simple_agents)
                                           \cup {UnknownAgent}) :
             /\ last_result' = result
             /\ ret' = [kind |-> "simple", response |-> result.response,
                        agent_type |-> current_router,
                        confidence |-> selected.confidence]
       \/ /\ last_result' = [response |-> NoResponse, action |-> "raise",
                             next |-> None]
          /\ ret' = [kind |-> "simple", response |-> FixedResponse("error"),
                     agent_type |-> "error", confidence |-> 0]
    /\ pc' = "idle"
    /\ UNCHANGED <<mgr, routers, conversation_history, routing_history,
                   selected, context, current_router, switch_count, probes,
                   reqNo, log, held, parked, instances, outside>>

\* the SimpleRouter the module builds, line 134
SimpleInit ==
    /\ mgr = "SimpleRouter"
    /\ CoreIdle
    /\ OutsideIdle

SimpleNext ==
    \/ \E s \in Sessions : simple_process_message(s)
    \/ simple_agent_process

SimpleSpec == SimpleInit /\ [][SimpleNext]_vars

\* ---------------------------------------------------- LangGraphRouter
\* backend/app/services/langgraph_router.py: a graph of a router node, four
\* agent nodes and an error handler.  A message is known by how many
\* keywords of each agent's list it holds.  state is the RouterState, node
\* the node the graph runs next, chain the agent nodes that have run.
Requests == [Range(agents) -> 0..MaxHits]

\* _calculate_search_confidence and the like, lines 267-304: 0.2 for each
\* keyword, at most 1.0, in tenths
keyword_confidence(hits) == IF 2 * hits > 10 THEN 10 ELSE 2 * hits

confidence_scores(message) ==
    [a \in Range(agents) |-> keyword_confidence(message[a])]

Event(event, agent) == [event |-> event, agent |-> agent]

\* route_after_router, lines 224-245
route_after_router(st) ==
    IF st.routing_confidence < 3 THEN "error_handler"
    ELSE IF st.current_agent \in Range(agents) THEN st.current_agent
    ELSE "error_handler"

\* should_continue_or_end, lines 248-260, which no edge of the graph uses
should_continue_or_end(st) ==
    IF st.error_message # None \/ st.is_complete THEN "end"
    ELSE IF st.next_action = "switch" /\ st.agent_switches < 3
    THEN "continue"
    ELSE "end"

\* the agent nodes wired to should_continue_or_end: "continue" leads to the
\* node of the agent the state names
agent_edge_conditional(st) ==
    IF should_continue_or_end(st) = "continue"
       /\ st.current_agent \in Range(agents)
    THEN st.current_agent
    ELSE "END"

\* _initialize_workflow, lines 414-419: every agent node leads to END
agent_edge(st) == "END"

\* _update_state_from_result, lines 325-344
update_state_from_result(st, result) ==
    LET answered == [st EXCEPT !.final_response = result.response]
    IN  CASE result.action = "complete" ->
                 [answered EXCEPT !.is_complete = TRUE]
          [] result.action = "switch" ->
                 [answered EXCEPT !.next_action = "switch",
                                  !.current_agent = result.next,
                                  !.agent_switches = @ + 1]
          [] result.action = "error" ->
                 [answered EXCEPT !.error_message = "agent_error",
                                  !.next_action = "error"]
          [] OTHER -> answered

\* LangGraphRouter.process_message, lines 444-470: the initial state
graph_process_message ==
    /\ mgr = "LangGraphRouter"
    /\ node = "idle"
    /\ \E message \in Requests :
          state' = [NoState EXCEPT !.current_message = message]
    /\ node' = "router"
    /\ chain' = <<>>
    /\ ret' = NoRet
    /\ UNCHANGED <<around, openai_client, processes, started>>

\* LangGraphRouter.process_message, lines 473-487: the graph has reached END
GraphReturn(st) ==
    /\ ret' = [kind |-> "graph", response |-> st.final_response,
               agent_type |-> st.current_agent,
               confidence |-> st.routing_confidence,
               agent_switches |-> st.agent_switches]
    /\ node' = "idle"

\* router_node, lines 76-107, and the conditional edge behind it
router_node ==
    /\ mgr = "LangGraphRouter"
    /\ node = "router"
    /\ LET scores == confidence_scores(state.current_message)
           best_agent == FirstMax(agents, scores)
           st == [state EXCEPT
                     !.current_agent = best_agent,
                     !.routing_confidence = scores[best_agent],
                     !.workflow_history =
                         Append(@, Event("routed_to", best_agent))]
       IN  /\ state' = st
           /\ node' = route_after_router(st)
    /\ UNCHANGED <<around, chain, ret, openai_client, processes, started>>

\* document_search_node and the three other agent nodes, lines 110-195,
\* and the edge behind them: the agent runs, or raises, and the graph ends
agent_node ==
    /\ mgr = "LangGraphRouter"
    /\ node \in Range(agents)
    /\ chain' = Append(chain, node)
    /\ \E st \in
          {[update_state_from_result(state, result) EXCEPT
               !.workflow_history = Append(@, Event("executed", node))] :
              result \in HandlerResults(node,
                                        Range(agents) \cup {UnknownAgent})}
          \cup {[state EXCEPT !.error_message = "exception",
                              !.next_action = "error"]} :
          /\ state' = st
          /\ IF agent_edge(st) = "END"
             THEN GraphReturn(st)
             ELSE node' = agent_edge(st) /\ UNCHANGED ret
    /\ UNCHANGED <<around, openai_client, processes, started>>

\* error_handler_node, lines 198-217, and the edge to END
error_handler_node ==
    /\ mgr = "LangGraphRouter"
    /\ node = "error_handler"
    /\ LET st == [state EXCEPT
                     !.final_response = FixedResponse("error"),
                     !.is_complete = TRUE,
                     !.workflow_history =
                         Append(@, Event("error_handled", None))]
       IN  /\ state' = st
           /\ GraphReturn(st)
    /\ UNCHANGED <<around, chain, openai_client, processes, started>>

\* a new LangGraphRouter
GraphInit ==
    /\ mgr = "LangGraphRouter"
    /\ CoreIdle
    /\ OutsideIdle

GraphNext ==
    \/ graph_process_message
    \/ router_node
    \/ agent_node
    \/ error_handler_node

GraphSpec == GraphInit /\ [][GraphNext]_vars

\* ---------------------------------------------------- NaruTalkWorkflow
\* backend/app/langgraph_structure.py: the same graph with agent nodes of
\* its own, each followed by the conditional edge should_continue_or_end.
\* state is the AgentState.

\* route_after_router, lines 224-236
workflow_route_after_router(st) ==
    IF st.error_message # None THEN "error_handler"
    ELSE IF st.routing_confidence < 3 THEN "error_handler"
    ELSE st.current_agent

\* NaruTalkWorkflow.process_message, lines 417-441
workflow_process_message ==
    /\ mgr = "NaruTalkWorkflow"
    /\ node = "idle"
    /\ \E message \in Requests :
          state' = [NoState EXCEPT !.current_message = message]
    /\ node' = "router"
    /\ chain' = <<>>
    /\ ret' = NoRet
    /\ UNCHANGED <<around, openai_client, processes, started>>

\* NaruTalkWorkflow.process_message, lines 443-451
WorkflowReturn(st) ==
    /\ ret' = [kind |-> "workflow", current_agent |-> st.current_agent,
               is_complete |-> st.is_complete, error |-> st.error_message,
               workflow_history |-> st.workflow_history]
    /\ node' = "idle"

\* router_node, lines 55-86, and the conditional edge behind it; the graph
\* is followed for MaxSupersteps entries of workflow_history
workflow_router_node ==
    /\ mgr = "NaruTalkWorkflow"
    /\ node = "router"
    /\ Len(state.workflow_history) < MaxSupersteps
    /\ LET scores == confidence_scores(state.current_message)
           best_agent == FirstMax(agents, scores)
           st == [state EXCEPT
                     !.current_agent = best_agent,
                     !.routing_confidence = scores[best_agent],
                     !.workflow_history =
                         Append(@, Event("routed_to", best_agent))]
       IN  /\ state' = st
           /\ node' = workflow_route_after_router(st)
    /\ UNCHANGED <<around, chain, ret, openai_client, processes, started>>

\* should_continue_or_end, lines 238-254: the node that follows, and the
\* states the edge can leave behind (its agent_switches += 1 is made on the
\* state handed to the edge function, which the graph may or may not keep)
workflow_should_continue_or_end(st) ==
    IF st.error_message # None THEN {<<"error_handler", st>>}
    ELSE IF st.is_complete THEN {<<"END", st>>}
    ELSE IF st.next_action = "switch_agent"
    THEN IF st.agent_switches < 3
         THEN {<<"router", st>>,
               <<"router", [st EXCEPT !.agent_switches = @ + 1]>>}
         ELSE {<<"error_handler", st>>}
    ELSE {<<"END", st>>}

\* document_search_node, lines 88-116: perform_document_search answers
\* with its two sample documents, fewer than the three the node asks for
workflow_document_search_node ==
    /\ mgr = "NaruTalkWorkflow"
    /\ node = "document_search"
    /\ chain' = Append(chain, node)
    /\ LET found == IF SampleDocuments >= 3
                    THEN [state EXCEPT !.is_complete = TRUE,
                                       !.next_action = "complete"]
                    ELSE [state EXCEPT !.next_action = "switch_agent"]
           st == [found EXCEPT !.workflow_history =
                                   Append(@, Event("completed", node))]
       IN  \E edge \in workflow_should_continue_or_end(st) :
              /\ state' = edge[2]
              /\ IF edge[1] = "END"
                 THEN WorkflowReturn(edge[2])
                 ELSE node' = edge[1] /\ UNCHANGED ret
    /\ UNCHANGED <<around, openai_client, processes, started>>

\* document_draft_node, performance_analysis_node and client_analysis_node,
\* lines 118-205: the node completes
workflow_agent_node ==
    /\ mgr = "NaruTalkWorkflow"
    /\ node \in Range(agents) \ {"document_search"}
    /\ chain' = Append(chain, node)
    /\ LET st == [state EXCEPT
                     !.is_complete = TRUE,
                     !.next_action = "complete",
                     !.workflow_history =
                         Append(@, Event("completed", node))]
       IN  \E edge \in workflow_should_continue_or_end(st) :
              /\ state' = edge[2]
              /\ IF edge[1] = "END"
                 THEN WorkflowReturn(edge[2])
                 ELSE node' = edge[1] /\ UNCHANGED ret
    /\ UNCHANGED <<around, openai_client, processes, started>>

\* error_handler_node, lines 207-218, and the edge to END
workflow_error_handler_node ==
    /\ mgr = "NaruTalkWorkflow"
    /\ node = "error_handler"
    /\ LET st == [state EXCEPT
                     !.final_response = FixedResponse("error"),
                     !.is_complete = TRUE,
                     !.next_action = "complete",
                     !.workflow_history =
                         Append(@, Event("error_handled", None))]
       IN  /\ state' = st
           /\ WorkflowReturn(st)
    /\ UNCHANGED <<around, chain, openai_client, processes, started>>

\* a new NaruTalkWorkflow
WorkflowInit ==
    /\ mgr = "NaruTalkWorkflow"
    /\ CoreIdle
    /\ OutsideIdle

WorkflowNext ==
    \/ workflow_process_message
    \/ workflow_router_node
    \/ workflow_document_search_node
    \/ workflow_agent_node
    \/ workflow_error_handler_node

WorkflowSpec == WorkflowInit /\ [][WorkflowNext]_vars

\* ------------------------------------------------------ ServiceManager
\* microservices_narutalk/run_all_services.py: the six services are started
\* one after the other as child processes.  processes maps a service name to
\* its Popen object, known by what poll() says of it; started holds what
\* start_service returned for each service of this start_all_services; node
\* is the method ServiceManager is in.
SERVICES == <<"Django Manager", "Enhanced Router Agent", "Document Agent",
              "Employee Agent", "Client Agent", "General Agent">>

\* what can happen to a service that is started: its directory is missing,
\* Popen raises, the process has exited when it is polled after 3 s, or it
\* is running
StartOutcomes == {"path_missing", "popen_raises", "exited", "running"}

\* what can happen to a process that is stopped: it ends within 10 s of
\* terminate(), wait() times out and it is killed, or terminate() or wait()
\* raise something else
StopOutcomes == {"graceful", "killed", "raised"}

\* start_service, lines 108-172: the process is stored at line 154, before
\* it is polled at line 160
start_service(procs, service, outcome) ==
    LET stored(poll) == [n \in DOMAIN procs \cup {service} |->
                            IF n = service THEN poll ELSE procs[n]]
    IN  CASE outcome = "path_missing" ->
                 [processes |-> procs, result |-> FALSE]
          [] outcome = "popen_raises" ->
                 [processes |-> procs, result |-> FALSE]
          [] outcome = "exited" ->
                 [processes |-> stored("exited"), result |-> FALSE]
          [] outcome = "running" ->
                 [processes |-> stored("running"), result |-> TRUE]

\* stop_service, lines 174-188: whatever the try does, finally deletes the
\* entry; kill() of a child process does not raise
stop_service(procs, service_name, outcome) ==
    LET deleted == [n \in DOMAIN procs \ {service_name} |-> procs[n]]
    IN  IF service_name \in DOMAIN procs
        THEN CASE outcome = "graceful" -> deleted
               [] outcome = "killed" -> deleted
               [] outcome = "raised" -> deleted
        ELSE procs

\* start_all_services, lines 196-221: the services are started in their
\* order, the services of processes are listed as running, and the method
\* returns whether all have started
start_all_services ==
    /\ mgr = "ServiceManager"
    /\ node = "idle"
    /\ \E outcomes \in [Range(SERVICES) -> StartOutcomes] :
          LET after[i \in 0..Len(SERVICES)] ==
                  IF i = 0
                  THEN [processes |-> processes, started |-> NoProcesses]
                  ELSE LET before == after[i - 1]
                           service == SERVICES[i]
                           r == start_service(before.processes, service,
                                              outcomes[service])
                       IN  [processes |-> r.processes,
                            started |->
                                [n \in DOMAIN before.started \cup {service}
                                    |-> IF n = service THEN r.result
                                        ELSE before.started[n]]]
              done == after[Len(SERVICES)]
              success_count ==
                  Cardinality({n \in DOMAIN done.started : done.started[n]})
              total_count == Len(SERVICES)
          IN  /\ processes' = done.processes
              /\ started' = done.started
              /\ ret' = [kind |-> "start_all_services",
                         running |-> IF success_count > 0
                                     THEN DOMAIN done.processes ELSE {},
                         result |-> (success_count = total_count)]
    /\ node' = "started"
    /\ UNCHANGED <<around, chain, openai_client, state>>

\* monitor_services, lines 229-233, which main enters when
\* start_all_services returned True: the processes that have ended since
\* are taken out
monitor_services ==
    /\ mgr = "ServiceManager"
    /\ node = "started"
    /\ ret.result
    /\ \E ended \in SUBSET DOMAIN processes :
          /\ ended # {}
          /\ processes' = [n \in DOMAIN processes \ ended |-> processes[n]]
    /\ UNCHANGED <<around, chain, ret, openai_client, state, node, started>>

\* stop_all_services, lines 190-194, called by the signal handler or by
\* monitor_services on Ctrl+C: the names that processes held at the call are
\* stopped one after the other
stop_all_services ==
    /\ mgr = "ServiceManager"
    /\ node = "started"
    /\ \E outcomes \in [DOMAIN processes -> StopOutcomes] :
          LET names == SelectSeq(SERVICES, LAMBDA n : n \in DOMAIN processes)
              after[i \in 0..Len(names)] ==
                  IF i = 0 THEN processes
                  ELSE stop_service(after[i - 1], names[i],
                                    outcomes[names[i]])
          IN  processes' = after[Len(names)]
    /\ node' = "stopped"
    /\ ret' = [kind |-> "stop_all_services"]
    /\ UNCHANGED <<around, chain, openai_client, state, started>>

\* ServiceManager.__init__, lines 77-80
ServiceInit ==
    /\ mgr = "ServiceManager"
    /\ CoreIdle
    /\ OutsideIdle

ServiceNext ==
    \/ start_all_services
    \/ monitor_services
    \/ stop_all_services

ServiceSpec == ServiceInit /\ [][ServiceNext]_vars

\* ------------------------------------------------------- ServiceClient
\* microservices_narutalk/django_manager/services/service_client.py: the
\* client of the Django manager's views.  It keeps nothing between two
\* calls; ret holds what a call gave its view until the view has answered.
\* The services of settings.MICROSERVICES are those the client's own
\* methods name, lines 79-124.
MICROSERVICES == <<"ROUTER_AGENT", "DOCUMENT_AGENT", "EMPLOYEE_AGENT",
                   "CLIENT_AGENT", "GENERAL_AGENT">>

\* what the HTTP exchange with a service comes to: no answer within the
\* timeout, an answer with an error status, another failure (the connection
\* is refused, the body is not JSON), or a JSON object, which may itself
\* hold an "error" key
Exchanges ==
    {[kind |-> "timeout"],
     [kind |-> "http_error", status_code |-> 500],
     [kind |-> "failure"],
     [kind |-> "json", body |-> [status |-> "healthy"]],
     [kind |-> "json", body |-> [error |-> "not ready"]]}

\* call_service whose try has no except Exception clause
call_service_two_excepts(service_name, method, exchange) ==
    IF service_name \notin Range(MICROSERVICES)
    THEN [raises |-> FALSE, value |-> [error |-> "Unknown service"]]
    ELSE IF method \notin {"GET", "get", "POST", "post", "PUT", "put",
                           "DELETE", "delete"}
    THEN [raises |-> FALSE, value |-> [error |-> "Unsupported method"]]
    ELSE CASE exchange.kind = "timeout" ->
                  [raises |-> FALSE, value |-> [error |-> "Service timeout"]]
           [] exchange.kind = "http_error" ->
                  [raises |-> FALSE, value |-> [error |-> "HTTP"]]
           [] exchange.kind = "failure" ->
                  [raises |-> TRUE, value |-> [exception |-> "failure"]]
           [] exchange.kind = "json" ->
                  [raises |-> FALSE, value |-> exchange.body]

\* call_service, lines 20-53; method.upper() is compared with the four
\* methods
call_service(service_name, method, exchange) ==
    LET upper == [x \in {"GET", "get"} |-> "GET"]
                     @@ [x \in {"POST", "post"} |-> "POST"]
                     @@ [x \in {"PUT", "put"} |-> "PUT"]
                     @@ [x \in {"DELETE", "delete"} |-> "DELETE"]
                     @@ [x \in {"PATCH", "patch"} |-> "PATCH"]
    IN  IF service_name \notin Range(MICROSERVICES)
        THEN [raises |-> FALSE, value |-> [error |-> "Unknown service"]]
        ELSE IF upper[method] \notin {"GET", "POST", "PUT", "DELETE"}
        THEN [raises |-> FALSE, value |-> [error |-> "Unsupported method"]]
        ELSE CASE exchange.kind = "timeout" ->
                      [raises |-> FALSE,
                       value |-> [error |-> "Service timeout"]]
               [] exchange.kind = "http_error" ->
                      [raises |-> FALSE,
                       value |-> [error |->
                                     <<"HTTP", exchange.status_code>>]]
               [] exchange.kind = "failure" ->
                      [raises |-> FALSE, value |-> [error |-> "failure"]]
               [] exchange.kind = "json" ->
                      [raises |-> FALSE, value |-> exchange.body]

\* health_check, lines 55-63
health_check(service_name, exchange) ==
    IF service_name \notin Range(MICROSERVICES)
    THEN [raises |-> FALSE, value |-> [error |-> "Unknown service"]]
    ELSE call_service(service_name, "GET", exchange)

\* health_check_all, lines 65-76: an exception of a health_check ends the
\* loop
health_check_all(exchanges) ==
    LET result == [n \in Range(MICROSERVICES) |->
                      health_check(n, exchanges[n])]
    IN  IF \E n \in Range(MICROSERVICES) : result[n].raises
        THEN [raises |-> TRUE, value |-> [exception |-> "failure"]]
        ELSE [raises |-> FALSE,
              value |-> [n \in Range(MICROSERVICES) |->
                            [status |-> IF "error" \notin
                                              DOMAIN result[n].value
                                        THEN "healthy" ELSE "unhealthy",
                             details |-> result[n].value]]]

\* views.direct_service_call, line 178: a view calls call_service
direct_service_call ==
    /\ mgr = "ServiceClient"
    /\ node = "idle"
    /\ \E service_name \in Range(MICROSERVICES) \cup {"UNKNOWN_AGENT"},
          method \in {"GET", "post", "PUT", "delete", "PATCH"},
          exchange \in Exchanges :
          LET result == call_service(service_name, method, exchange)
          IN  ret' = [kind |-> "call_service",
                      service_name |-> service_name,
                      method |-> method,
                      exchange |-> exchange,
                      raises |-> result.raises,
                      value |-> result.value]
    /\ node' = "view"
    /\ UNCHANGED <<around, chain, openai_client, state, processes, started>>

\* views.HealthCheckView.get, line 122: a view calls health_check_all
health_check_view ==
    /\ mgr = "ServiceClient"
    /\ node = "idle"
    /\ \E exchanges \in [Range(MICROSERVICES) -> Exchanges] :
          LET result == health_check_all(exchanges)
          IN  ret' = [kind |-> "health_check_all",
                      exchanges |-> exchanges,
                      raises |-> result.raises,
                      value |-> result.value]
    /\ node' = "view"
    /\ UNCHANGED <<around, chain, openai_client, state, processes, started>>

\* the view answers its request with what the client gave it
view_response ==
    /\ mgr = "ServiceClient"
    /\ node = "view"
    /\ node' = "idle"
    /\ ret' = NoRet
    /\ UNCHANGED <<around, chain, openai_client, state, processes, started>>

\* the module's service_client, line 128
ClientInit ==
    /\ mgr = "ServiceClient"
    /\ CoreIdle
    /\ OutsideIdle

ClientNext ==
    \/ direct_service_call
    \/ health_check_view
    \/ view_response

ClientSpec == ClientInit /\ [][ClientNext]_vars

\* ----------------------------------------------------------------- notions
RunReturned == pc = "idle" /\ ret.kind \in {"rm", "arm", "arm_error"}

MaxSwitches ==
    IF mgr = "ARM" THEN max_agent_switches ELSE max_router_switches

Registered ==
    IF mgr = "ARM" THEN Range(agents)
    ELSE IF mgr = "SimpleRouter" THEN Range(simple_agents)
    ELSE Range(routers)

\* confidence threshold of the manager, in tenths
Threshold ==
    IF mgr = "ARM" THEN agent_score_threshold \div 10
    ELSE router_confidence_threshold

IsError(r) ==
    \/ r.kind = "rm" /\ r.router_type = "error"
    \/ r.kind = "arm" /\ r.action = "error"
    \/ r.kind = "arm_error"

IsMaxSwitchesError(r) ==
    \/ r.kind = "rm" /\ r.router_type = "error"
                     /\ r.error = "max_switches_exceeded"
    \/ r.kind = "arm" /\ r.action = "error"

\* the selection of the run has just been made and a handler was chosen
JustSelected == pc = "exec" /\ DOMAIN probes # {}

\* every probed handler answered below the threshold (a raise counts as 0.0)
AllBelow == DOMAIN probes # {} /\ \A h \in DOMAIN probes : probes[h] < Threshold

\* the run ended because a switch to a registered handler was refused
LimitHit ==
    /\ RunReturned
    /\ last_result.action = "switch"
    /\ last_result.next \in Registered

\* the run ended on a switch to a name that is not registered
UnknownSwitch ==
    /\ RunReturned
    /\ last_result.action = "switch"
    /\ last_result.next \notin Registered

\* a selection has just been made, with or without a winner
SelectionMade == DOMAIN probes # {}

\* the handler the selection returned, or None
Winner == IF mgr = "ARM" THEN selected.agent ELSE current_router

\* the handlers whose probe raised in this selection
Faulty == {h \in DOMAIN probes : probes[h] = Raise}

\* the probe results with every raise taken as confidence 0.0
ZeroForRaise == [h \in DOMAIN probes |-> IF probes[h] = Raise THEN 0
                                         ELSE probes[h]]

\* the handlers in registration order (the insertion order of the dict)
Registry == IF mgr = "ARM" THEN agents ELSE routers

RegistrationIndex(h) == CHOOSE i \in DOMAIN Registry : Registry[i] = h

\* the handlers the scoring step of this selection compares
Candidates ==
    IF mgr = "ARM" THEN DOMAIN probes
    ELSE {h \in DOMAIN probes : probes[h] >= router_confidence_threshold}

\* where the turns of request k are: pairs of a session and a position
TurnsOf(k) ==
    UNION {{<<s, i>> : i \in {j \in DOMAIN log[s] : log[s][j].user = k}} :
              s \in DOMAIN log}

\* request k is still being processed, running or suspended at an await
InFlight(k) ==
    \/ pc # "idle" /\ context.current_message = k
    \/ parked.pc # "idle" /\ parked.context.current_message = k

\* the weighted score of every probed handler, a raise taken as 0.0
BlendedScore ==
    [h \in DOMAIN probes |->
        IF probes[h] = Raise THEN 0
        ELSE 7 * probes[h]
             + 3 * (IF mgr = "ARM" THEN priority(h) ELSE get_priority(h))]

\* the switch counter of the run: the local switch_count of RouterManager,
\* the agent_switches of the context in AgentRouterManager
Counter == IF mgr = "ARM" THEN context.switches ELSE switch_count

\* the switches of the run that were followed: a followed switch is one
\* whose target has been executed or is the handler about to be executed
Followed ==
    IF pc = "exec" THEN Len(chain)
    ELSE IF chain = <<>> THEN 0
    ELSE Len(chain) - 1

\* the handler a returned result names: router_type, agent_id or agent_type
Identity ==
    CASE ret.kind = "rm" -> ret.router_type
      [] ret.kind = "arm" -> ret.agent_id
      [] ret.kind \in {"graph", "simple"} -> ret.agent_type
      [] OTHER -> None

\* the count the statistics hold for agent a, 0 when they do not name it
UsageCount(stats, a) ==
    IF "agent_usage" \in DOMAIN stats /\ a \in DOMAIN stats.agent_usage
    THEN stats.agent_usage[a].count
    ELSE 0

\* the counts of a usage map added up
UsageTotal(usage) ==
    LET keys == DOMAIN usage
        sum[S \in SUBSET keys] ==
            IF S = {} THEN 0
            ELSE LET a == CHOOSE x \in S : TRUE
                 IN  usage[a].count + sum[S \ {a}]
    IN  sum[keys]

\* ------------------------------------------------------------------ claims

\* C1: in every run the number of executed handlers minus one is at most
\* maxSwitches, and a run stopped by the switch limit ends with a
\* MaxSwitchesExceeded error.
C1_BoundedChain ==
    /\ Len(chain) - 1 <= MaxSwitches
    /\ LimitHit => IsMaxSwitchesError(ret)

C4_UnknownHandler ==
    UnknownSwitch =>
        /\ IsError(ret)
        /\ chain[Len(chain)] = last_result.response.by

\* C5: when a handler's execute raises, at the first hop or after switches,
\* the run stops and the caller gets a typed error result, not an exception.
C5_HandlerFault ==
    last_result.action = "raise" =>
        /\ pc = "idle"
        /\ IsError(ret)
        /\ chain # <<>>
        /\ chain[Len(chain)] = context.current

C5_Witness ==
    /\ last_result.action = "raise"
    /\ Len(chain) >= 2
    /\ RunReturned

\* C6: a run stopped by the switch limit has executed exactly
\* maxSwitches + 1 handlers (A, B, A, B for maxSwitches = 3 and two handlers
\* that switch to each other) and ends with a MaxSwitchesExceeded error.
C6_LimitChain ==
    LimitHit =>
        /\ Len(chain) = MaxSwitches + 1
        /\ IsMaxSwitchesError(ret)

\* C7: when the switch limit is exceeded the outcome is a
\* MaxSwitchesExceeded error whose response is the last executed handler's
\* response with a notice appended.
C7_PartialResponse ==
    LimitHit =>
        /\ IsMaxSwitchesError(ret)
        /\ ret.response.by = chain[Len(chain)]
        /\ ret.response.text = "handler_response"
        /\ ret.response.notice

\* C8: the result returned to the caller never has the action switch and
\* never names a next handler.
C8_NoSwitchReturned ==
    (RunReturned /\ ret.kind = "arm") =>
        /\ ret.action # "switch"
        /\ ret.next_agent = None

\* C9: a session's history never holds more than N = 50 turns; it holds the
\* most recently appended ones, in the order they were appended.
C9_HistoryCap ==
    \A s \in DOMAIN conversation_history :
        LET h == conversation_history[s]
            n == Len(log[s])
        IN  /\ Len(h) <= 50
            /\ mgr = "RM" =>
                  /\ Len(h) = IF n > 50 THEN 50 ELSE n
                  /\ h = SubSeq(log[s], n - Len(h) + 1, n)

C9_Witness ==
    /\ mgr = "RM"
    /\ "s1" \in DOMAIN conversation_history
    /\ Len(conversation_history["s1"]) = 50
    /\ Len(log["s1"]) = 51
    /\ conversation_history["s1"][50].user = reqNo

\* C10: a turn appended by a completed run for a session is returned by every
\* later read of that session's history, until the cap evicts it.
C10_HistoryPersists ==
    ret.kind = "history" =>
        LET n == Len(log[ret.session_id])
            kept == IF n > 50 THEN 50 ELSE n
        IN  /\ Len(ret.history) = kept
            /\ \A i \in 1..kept :
                  ret.history[i] = log[ret.session_id][n - kept + i]

\* C11: a read of a session's history returns a copy: what the holder does
\* to the returned list never changes what the store holds for the session
\* (the turns of the runs, newest 50), and a later append to the store never
\* changes the returned list (it stays as returned, plus the holder's items).
C11_SnapshotCopy ==
    held.session # None =>
        LET s == held.session
            n == Len(log[s])
            kept == IF n > 50 THEN 50 ELSE n
        IN  /\ s \in DOMAIN conversation_history =>
                  conversation_history[s] =
                      [i \in 1..kept |-> log[s][n - kept + i]]
            /\ HeldList =
                  held.snapshot \o [i \in 1..held.own |-> Injected]

\* C12: when probes raise, the selection still ends without an exception;
\* if some probe returned, the winner is the one the selector returns when the
\* raising handlers answer confidence 0.0 instead, so the other handlers keep
\* their scores and their winner; if every probe raised, no handler is
\* selected.
C12_ProbeFaultIsolation ==
    (SelectionMade /\ Faulty # {}) =>
        /\ pc \in {"exec", "idle"}
        /\ pc = "idle" => IsError(ret)
        /\ IF Faulty = DOMAIN probes
           THEN Winner = None /\ pc = "idle"
           ELSE Winner = IF mgr = "ARM"
                         THEN select_best_agent(ZeroForRaise).agent
                         ELSE select_router(routers, ZeroForRaise)

C12_Witness ==
    /\ SelectionMade
    /\ mgr = "RM"
    /\ probes["qa_router"] = Raise
    /\ probes["document_search_router"] = 9
    /\ pc = "exec"
    /\ current_router = "document_search_router"

\* C13: the winner is fixed by the registry and the probe results: it is the
\* candidate with the greatest weighted score, and of several candidates with
\* that score the one registered first.
C13_TieBreak ==
    (SelectionMade /\ Winner # None /\ Candidates # {}) =>
        LET w == [h \in Candidates |->
                     IF probes[h] = Raise THEN 0
                     ELSE 7 * probes[h] + 3 * (IF mgr = "ARM" THEN priority(h)
                                               ELSE get_priority(h))]
        IN  /\ Winner \in Candidates
            /\ \A h \in Candidates :
                  /\ w[h] <= w[Winner]
                  /\ w[h] = w[Winner] =>
                        RegistrationIndex(Winner) <= RegistrationIndex(h)

C13_Witness ==
    /\ SelectionMade
    /\ mgr = "ARM"
    /\ probes["document_search"] = 9
    /\ probes["performance_analysis"] = 9
    /\ selected.agent = "document_search"
    /\ pc = "exec"

\* C14: a handler's weighted score is 0.7 * confidence + 0.3 * priority / 10
\* (70 * c + 3 * p in hundredths, 7 * c + 3 * p with c in tenths); the selected
\* handler has the greatest weighted score of the candidates whose probe
\* returned, and when AgentRouterManager selects nobody the score it reports
\* is that greatest weighted score.
C14_WeightedScore ==
    (SelectionMade /\ Candidates \ Faulty # {}) =>
        LET prio == [h \in Candidates |-> IF mgr = "ARM" THEN priority(h)
                                          ELSE get_priority(h)]
            best == CHOOSE b \in Candidates \ Faulty :
                        \A h \in Candidates \ Faulty :
                            7 * probes[h] + 3 * prio[h]
                                <= 7 * probes[b] + 3 * prio[b]
        IN  IF Winner # None
            THEN /\ Winner \in Candidates \ Faulty
                 /\ 7 * probes[Winner] + 3 * prio[Winner]
                       = 7 * probes[best] + 3 * prio[best]
            ELSE /\ mgr = "ARM"
                 /\ selected.confidence = 7 * probes[best] + 3 * prio[best]

C14_Witness ==
    /\ SelectionMade
    /\ mgr = "ARM"
    /\ probes["document_draft"] = 9
    /\ probes["document_search"] = 1
    /\ probes["performance_analysis"] = 1
    /\ selected.agent = "document_draft"
    /\ pc = "exec"

\* C15: a step that leaves a run of a manager object still selecting or
\* executing changes neither the session store (its sessions included) nor
\* the statistics: commits come only with the terminal state.
C15_CommitAfterTerminal ==
    [][(mgr # "API" /\ pc' \in {"select", "exec"}) =>
          /\ conversation_history' = conversation_history
          /\ get_router_statistics' = get_router_statistics
          /\ routing_history' = routing_history]_vars

\* C16: a run that has returned, with a result or with an error, has
\* appended exactly one turn to its session's history (RouterManager) and
\* recorded exactly one outcome in the statistics (the routing history of
\* AgentRouterManager).
C16_OneTurnPerRun ==
    RunReturned =>
        IF mgr = "ARM"
        THEN Cardinality({i \in DOMAIN routing_history :
                             routing_history[i].message = reqNo}) = 1
        ELSE Cardinality({i \in DOMAIN log[context.session_id] :
                             log[context.session_id][i].user = reqNo}) = 1

\* C17: a health check, run on a new manager, reports an entry for every
\* registered handler, with a handler whose probe raised reported as failed
\* and every other one as healthy, and leaves the session store, the
\* statistics and the registry as they were.
C17_HealthCheck ==
    ret.kind = "health" =>
        /\ "agents" \in DOMAIN ret
        /\ DOMAIN ret.agents = Registered
        /\ \A h \in Registered :
              ret.agents[h].status =
                  IF probes[h] = Raise THEN "error" ELSE "healthy"
        /\ conversation_history = NoHistory
        /\ \A s \in DOMAIN log : log[s] = <<>>
        /\ routing_history = <<>>
        /\ Registry = IF mgr = "ARM" THEN agents ELSE AllRouters

\* C18: however two overlapping runs interleave at their awaits, every run
\* that has returned has exactly one turn in the histories, in its own
\* session, a run still in flight has none, and every session holds the
\* newest 50 of the turns appended to it, in order.
C18_Interleaving ==
    /\ \A k \in 1..reqNo :
          Cardinality(TurnsOf(k)) = IF InFlight(k) THEN 0 ELSE 1
    /\ RunReturned =>
          \A p \in TurnsOf(context.current_message) :
              p[1] = context.session_id
    /\ \A s \in DOMAIN conversation_history :
          LET n == Len(log[s])
              kept == IF n > 50 THEN 50 ELSE n
          IN  conversation_history[s] =
                  [i \in 1..kept |-> log[s][n - kept + i]]

\* C19: no name is registered twice, and adding a handler under a name that
\* is already registered is rejected with an error raised to the caller: the
\* handler registered earlier stays in the registry.
C19_DuplicateRejected ==
    /\ \A i, j \in DOMAIN routers : routers[i] = routers[j] => i = j
    /\ (ret.kind = "add_router" /\ ret.was # None) =>
          /\ ret.raised
          /\ instances[ret.name] = ret.was

\* C20: when every probe and every process call returns or raises, a run
\* that has started always comes to return a result or an error to its
\* caller, whatever the handlers answer.
C20_Termination ==
    (pc \in {"select", "exec"}) ~> RunReturned

C20_Witness ==
    /\ LimitHit
    /\ Len(chain) >= MaxSwitches
    /\ \A i \in 1..(Len(chain) - 1) : chain[i] # chain[i + 1]

\* C21: when the OpenAI client is absent or the API call raises, the
\* analysis does not fail: it answers with the keyword-fallback result, whose
\* intent is one of search_documents, analyze_employee_data,
\* get_client_information and general_conversation, and whose service is the
\* one _get_service_name gives for that intent.
C21_FallbackRouting ==
    (/\ ret.kind = "analyze"
     /\ (openai_client = None \/ ret.completion.kind = "raise")) =>
        /\ ret.status = 200
        /\ ret.reasoning = "keywords"
        /\ ret.intent = fallback_routing(ret.message).intent
        /\ ret.intent \in {"search_documents", "analyze_employee_data",
                           "get_client_information", "general_conversation"}
        /\ ret.service = get_service_name(ret.intent)

C21_Witness ==
    /\ ret.kind = "analyze"
    /\ openai_client # None
    /\ ret.completion.kind = "raise"
    /\ ret.intent = "get_client_information"

C23_TargetedHandoff ==
    /\ (pc = "exec" /\ chain # <<>>) =>
          /\ last_result.action = "switch"
          /\ current_router = last_result.next
          /\ probes = NoProbes
    /\ \A i \in DOMAIN state.workflow_history :
          (i > 1 /\ state.workflow_history[i].event = "routed_to") =>
              state.workflow_history[i - 1].event
                  \notin {"executed", "completed"}

\* C24: the switch counter of a run is between 0 and maxSwitches, it is the
\* number of switches the run has followed, and the value the handler
\* executed last saw in its context is the number of switches followed
\* before it.
C24_SwitchCounter ==
    /\ Counter \in 0..MaxSwitches
    /\ Counter = Followed
    /\ chain # <<>> =>
          context.switches = IF mgr = "ARM" /\ pc = "exec"
                             THEN Len(chain) ELSE Len(chain) - 1

\* C25: a selection asks every registered handler and chooses only after
\* all of them have answered or failed: it never stops at the first handler
\* with a high score.
C25_AllProbed ==
    SelectionMade =>
        /\ DOMAIN probes = Registered
        /\ Winner \in Registered \cup {None}

\* C26: a returned result whose response a handler produced names that
\* handler, which is the handler executed last, also after switches.
C26_ReportedIdentity ==
    (/\ ret.kind \in {"rm", "arm", "graph", "simple"}
     /\ ret.response.by \notin {None, "system"}) =>
        /\ Identity = ret.response.by
        /\ Identity = chain[Len(chain)]

\* C27: a run of the LangGraphRouter graph executes at most one agent node,
\* the one the router node picked; when that agent answers with a switch
\* the run ends all the same: the target is not executed and the switch
\* counter ends at 1 at most.
C27_OneAgentNode ==
    mgr = "LangGraphRouter" =>
        /\ Len(chain) <= 1
        /\ state.agent_switches <= 1
        /\ chain # <<>> =>
              /\ state.workflow_history # <<>>
              /\ state.workflow_history[1] = Event("routed_to", chain[1])
              /\ ret.kind = "graph"
              /\ node = "idle"
              /\ ret.agent_switches <= 1
        /\ state.next_action = "switch" =>
              /\ ret.kind = "graph"
              /\ state.current_agent \notin Range(chain)

C27_Witness ==
    /\ mgr = "LangGraphRouter"
    /\ ret.kind = "graph"
    /\ state.next_action = "switch"
    /\ state.current_agent \in Range(agents)
    /\ Len(chain) = 1
    /\ ret.agent_switches = 1

\* C28: the statistics agree with the recorded runs: every recorded run
\* adds one to the count of the agent it selected first and to
\* total_requests and changes no other count (an agent reached through a
\* switch is not counted), the counts add up to total_requests, and no agent
\* has a greater count than most_used_agent.
C28_Statistics ==
    /\ [](routing_history # <<>> =>
            LET stats == get_routing_statistics
            IN  /\ stats.total_requests = Len(routing_history)
                /\ UsageTotal(stats.agent_usage) = stats.total_requests
                /\ stats.most_used_agent \in DOMAIN stats.agent_usage
                /\ \A a \in DOMAIN stats.agent_usage :
                      stats.agent_usage[a].count
                          <= stats.agent_usage[stats.most_used_agent].count)
    /\ [][Len(routing_history') = Len(routing_history) + 1 =>
            /\ chain' # <<>>
            /\ UsageCount(get_routing_statistics', chain'[1])
                  = UsageCount(get_routing_statistics, chain'[1]) + 1
            /\ \A a \in Range(agents) \ {chain'[1]} :
                  UsageCount(get_routing_statistics', a)
                      = UsageCount(get_routing_statistics, a)]_vars

C28_Witness ==
    /\ mgr = "ARM"
    /\ ret.kind = "statistics"
    /\ Len(routing_history) = 2
    /\ Len(chain) >= 2
    /\ chain[2] \notin DOMAIN ret.agent_usage
    /\ ret.agent_usage[chain[1]].count = 2

\* C29: when start_all_services has returned, every entry of processes is
\* of a service whose start_service returned True, and only such services
\* are listed as running; when stop_all_services has returned, processes is
\* empty.
C29_TracksRunning ==
    mgr = "ServiceManager" =>
        /\ node = "started" =>
               /\ \A n \in DOMAIN processes : started[n]
               /\ \A n \in ret.running : started[n]
        /\ node = "stopped" => processes = NoProcesses

\* C30: call_service does not raise, and gives a mapping with an "error"
\* key for an unknown service name, an unsupported method, a timeout, an
\* HTTP error status and any other failure; health_check_all does not raise
\* either, names every configured service, and calls a service healthy
\* exactly when its health result has no "error" key.
C30_ErrorsReturned ==
    mgr = "ServiceClient" =>
        /\ ret.kind = "call_service" =>
              /\ ~ret.raises
              /\ (\/ ret.service_name \notin Range(MICROSERVICES)
                  \/ ret.method = "PATCH"
                  \/ ret.exchange.kind \in {"timeout", "http_error", "failure"})
                     => "error" \in DOMAIN ret.value
        /\ ret.kind = "health_check_all" =>
              /\ ~ret.raises
              /\ DOMAIN ret.value = Range(MICROSERVICES)
              /\ \A n \in Range(MICROSERVICES) :
                    /\ ret.value[n].status \in {"healthy", "unhealthy"}
                    /\ ret.value[n].status = "healthy"
                          <=> "error" \notin DOMAIN ret.value[n].details
                    /\ ret.exchanges[n].kind # "json"
                          => ret.value[n].status = "unhealthy"

C30_Witness ==
    /\ mgr = "ServiceClient"
    /\ ret.kind = "health_check_all"
    /\ ret.exchanges["ROUTER_AGENT"].kind = "timeout"
    /\ ret.exchanges["DOCUMENT_AGENT"].kind = "failure"
    /\ ret.exchanges["EMPLOYEE_AGENT"].kind = "http_error"
    /\ ret.value["ROUTER_AGENT"].status = "unhealthy"
    /\ ret.value["CLIENT_AGENT"].status = "healthy"
    /\ ret.value["GENERAL_AGENT"].status = "unhealthy"
    /\ ret.value["GENERAL_AGENT"].details = [error |-> "not ready"]

TypeOK ==
    /\ pc \in {"idle", "select", "exec", "raised"}
    /\ reqNo \in 0..MaxRequests
    /\ \A s \in DOMAIN conversation_history :
          Len(conversation_history[s]) <= HistoryCap
====
